---- MODULE Spec2Model ----
(***************************************************************************)
(* MultiClip: a menu-bar clipboard history.  The repository holds two      *)
(* programs built around a ClipboardManager:                               *)
(*   "main"      src/main.go: no lock, lastContent, persistence, Clear.    *)
(*   "multiclip" src/multiclip/src/main.go: RWMutex, duplicates skipped,   *)
(*               200-byte limit, no persistence, no Clear.                 *)
(* A Go slice is a header [arr, len, cap] over a backing array held in     *)
(* heap, so that aliasing                                                  *)
(* (getClips, the in-place removal of addClip) is what the code does.      *)
(***************************************************************************)
EXTENDS Integers, Sequences, FiniteSets, TLC

VARIABLES
  variant,    \* which program runs: "main" or "multiclip"
  cm,         \* the ClipboardManager: [clips, lastContent] / [history]
  heap,       \* backing arrays of the live slices, heap[arr] is a sequence
  dataFile,   \* content of ~/.multiclip.json, or NoFile
  clipboard,  \* text held by the OS clipboard
  changed,    \* the OS clipboard changed since clipboard.Watch last reported
  items,      \* contents captured by the click handlers of the shown menu
  mon,        \* locals of the monitorClipboard goroutine
  menu,       \* locals of the menu-refresh goroutine
  clr,        \* position of the "Clear History" click handler
  clk,        \* locals of a running entry click handler
  crashed,    \* an unrecovered panic ended the process
  last,       \* history variable: the operation that ran last
  inserted,   \* history variable: the raw texts passed to Insert so far
  lin,        \* history variable: the sequential outcomes still possible
  since,      \* history variable: the Inserts since the last Clear
  sys,        \* the process: its phase, which goroutines run, the context
  hist        \* history variable: what a Clear or a click found, the
              \* click handlers started and not yet ended

vars == <<variant, cm, heap, dataFile, clipboard, changed, items, mon, menu,
          clr, clk, crashed, last, inserted, lin, since, sys, hist>>

tasks == <<mon, menu, clr, clk, crashed>>

----------------------------------------------------------------------------
(* Program constants *)

maxClips == 5

maxSize == 5

MaxTextLen == 200

\* no ~/.multiclip.json yet
NoFile == [json |-> "absent", elems |-> <<>>]

----------------------------------------------------------------------------
(* Texts.  A text is the sequence of its runs <<character, length>>, each  *)
(* run as long as it can be: "  ab" is << <<" ", 2>>, <<"a", 1>>,          *)
(* <<"b", 1>> >>, the empty text is << >>.  Equal texts have equal runs.   *)
(* A character is a byte, but for "0xFF", a byte that is no UTF-8, and     *)
(* "U+FFFD", the replacement character, three bytes long.                  *)

Str(c) == << <<c, 1>> >>

Rep(n, c) == << <<c, n>> >>

RECURSIVE ByteLen(_)
ByteLen(s) ==
  IF s = <<>> THEN 0
  ELSE (IF Head(s)[1] = "U+FFFD" THEN 3 ELSE 1) * Head(s)[2] + ByteLen(Tail(s))

\* the runs of a text put together where two neighbours hold the same character
RECURSIVE Merge(_)
Merge(s) ==
  IF Len(s) < 2 THEN s
  ELSE IF s[1][1] = s[2][1]
       THEN Merge(<< <<s[1][1], s[1][2] + s[2][2]>> >> \o SubSeq(s, 3, Len(s)))
       ELSE <<s[1]>> \o Merge(Tail(s))

IsSpace(c) == c \in {" ", "\n", "\t", "\r"}

RECURSIVE TrimLeft(_)
TrimLeft(s) ==
  IF s # <<>> /\ IsSpace(Head(s)[1]) THEN TrimLeft(Tail(s)) ELSE s

RECURSIVE TrimRight(_)
TrimRight(s) ==
  IF s # <<>> /\ IsSpace(s[Len(s)][1]) THEN TrimRight(SubSeq(s, 1, Len(s) - 1)) ELSE s

\* strings.TrimSpace
TrimSpace(s) == TrimRight(TrimLeft(s))

----------------------------------------------------------------------------
(* Slices and backing arrays *)

EmptySlice == [arr |-> 0, len |-> 0, cap |-> 0]

View(h, s) == IF s.len = 0 THEN <<>> ELSE SubSeq(h[s.arr], 1, s.len)

\* An array of at least n elements: Go zeroes what make and append allocate.
Pad(a, n) == IF Len(a) >= n THEN a ELSE [k \in 1..n |-> IF k <= Len(a) THEN a[k] ELSE <<>>]

NewArray(h, elems) == Append(h, elems)

NewSlice(h, elems, c) == [arr |-> Len(h) + 1, len |-> Len(elems), cap |-> c]

\* Drops the arrays no root refers to, cuts each array to the longest view a
\* root has of it, and numbers the arrays in the order of the roots.
Canon(h, roots) ==
  LET live == {roots[k].arr : k \in 1..Len(roots)} \ {0}
      first(a) == CHOOSE k \in 1..Len(roots) :
                    /\ roots[k].arr = a
                    /\ \A j \in 1..(k - 1) : roots[j].arr # a
      rank(a) == Cardinality({b \in live : first(b) <= first(a)})
      longest(a) == CHOOSE n \in {roots[k].len : k \in {j \in 1..Len(roots) : roots[j].arr = a}} :
                      \A k \in 1..Len(roots) : roots[k].arr = a => roots[k].len <= n
      arrOf(n) == CHOOSE a \in live : rank(a) = n
  IN  [heap  |-> [n \in 1..Cardinality(live) |->
                    SubSeq(Pad(h[arrOf(n)], longest(arrOf(n))), 1, longest(arrOf(n)))],
       roots |-> [k \in 1..Len(roots) |->
                    IF roots[k].arr = 0 THEN roots[k]
                    ELSE [roots[k] EXCEPT !.arr = rank(roots[k].arr)]]]

IndexOf(seq, x) ==
  IF \E k \in 1..Len(seq) : seq[k] = x
  THEN CHOOSE k \in 1..Len(seq) : seq[k] = x /\ \A j \in 1..(k - 1) : seq[j] # x
  ELSE 0

Count(seq, x) == Cardinality({k \in 1..Len(seq) : seq[k] = x})

NoDup(seq) == \A j, k \in 1..Len(seq) : j # k => seq[j] # seq[k]

RemoveAt(seq, k) == SubSeq(seq, 1, k - 1) \o SubSeq(seq, k + 1, Len(seq))

\* encoding/json writes a string: escapes for the control characters, and
\* \ufffd in place of a byte that is no UTF-8
QuoteChar(c) ==
  CASE c = "\n" -> "\\n"
    [] c = "\r" -> "\\r"
    [] c = "\t" -> "\\t"
    [] c = "0xFF" -> "\\ufffd"
    [] OTHER -> c

Quote(t) == [k \in 1..Len(t) |-> <<QuoteChar(t[k][1]), t[k][2]>>]

\* encoding/json reads a string
UnquoteChar(e) ==
  CASE e = "\\n" -> "\n"
    [] e = "\\r" -> "\r"
    [] e = "\\t" -> "\t"
    [] e = "\\ufffd" -> "U+FFFD"
    [] OTHER -> e

Unquote(q) == Merge([k \in 1..Len(q) |-> <<UnquoteChar(q[k][1]), q[k][2]>>])

JsonString(t) == [type |-> "string", text |-> Quote(t)]

\* src/main.go line 47: json.Marshal(cm.clips), a JSON array of strings
Marshal(v) == [json |-> "array", elems |-> [k \in 1..Len(v) |-> JsonString(v[k])]]

\* src/main.go line 43: json.Unmarshal(data, &cm.clips); the result is
\* [heap, slice].  Data that is no JSON is rejected before anything is
\* stored; null stores a nil slice; a value that is neither null nor an
\* array stores nothing; of an array every element is stored, one that is
\* no string as the empty string.  The error is dropped by loadClips.
Unmarshal(h, clips, file) ==
  LET vals == [k \in 1..Len(file.elems) |->
                 IF file.elems[k].type = "string" THEN Unquote(file.elems[k].text) ELSE <<>>]
  IN  CASE file.json = "null" -> [heap |-> h, slice |-> EmptySlice]
        [] file.json = "array" /\ Len(vals) <= clips.cap ->
             [heap  |-> [h EXCEPT ![clips.arr] = vals \o SubSeq(Pad(@, Len(vals)), Len(vals) + 1, Len(@))],
              slice |-> [clips EXCEPT !.len = Len(vals)]]
        [] file.json = "array" /\ Len(vals) > clips.cap ->
             [heap |-> NewArray(h, vals), slice |-> NewSlice(h, vals, Len(vals))]
        [] OTHER -> [heap |-> h, slice |-> clips]

\* src/main.go lines 37-44: loadClips; os.ReadFile fails on a file that is
\* absent or unreadable
loadClips(h, clips, file) ==
  IF file.json \in {"absent", "unreadable"} THEN [heap |-> h, slice |-> clips]
  ELSE Unmarshal(h, clips, file)

----------------------------------------------------------------------------
(* src/main.go: ClipboardManager.addClip, one step per access to the       *)
(* fields the goroutines share (cm.clips, cm.lastContent, the data file).  *)
(* s = [clips, lastContent, heap, dataFile, m], m the locals of the call.  *)

NoData == [json |-> "none", elems |-> <<>>]

IdleLocals == [pc |-> "idle", content |-> <<>>, i |-> 0, tmp |-> EmptySlice, data |-> NoData]

Call(content) == [IdleLocals EXCEPT !.pc = "57", !.content = content]

Goto(s, pc) == [s EXCEPT !.m.pc = pc]

Panic(s) == [s EXCEPT !.m = [IdleLocals EXCEPT !.pc = "panic"]]

\* The guard without its test for the empty text.
SkipLastOnly(content, lastContent) == content = lastContent

\* The guard without its test for the text seen last.
SkipBlankOnly(content, lastContent) == content = <<>>

\* line 57: the guard of addClip
Skip(content, lastContent) == content = <<>> \/ content = lastContent

\* lines 56-59
Step57(s) ==
  LET content == TrimSpace(s.m.content)
  IN  IF Skip(content, s.lastContent)
      THEN [s EXCEPT !.m = [IdleLocals EXCEPT !.pc = "ret"]]
      ELSE [s EXCEPT !.m.content = content, !.m.pc = "62"]

\* lines 62-63: range over cm.clips (the header is read once), first match
Step62(s) ==
  LET i == IndexOf(View(s.heap, s.clips), s.m.content)
  IN  IF i = 0 THEN Goto(s, "70a") ELSE [s EXCEPT !.m.i = i, !.m.pc = "64a"]

\* line 64, first operand: cm.clips[:i]
Step64a(s) ==
  IF s.m.i - 1 > s.clips.cap THEN Panic(s)
  ELSE [s EXCEPT !.m.tmp = [s.clips EXCEPT !.len = s.m.i - 1], !.m.pc = "64b"]

\* The elements append moves: those after the match.
Moved(seq, i) == SubSeq(seq, i + 1, Len(seq))

\* line 64, second operand cm.clips[i+1:] and the append, in place when the
\* capacity of the first operand allows
Step64b(s) ==
  IF s.m.i > s.clips.len THEN Panic(s)
  ELSE
    LET src == Moved(View(s.heap, s.clips), s.m.i)
        dst == s.m.tmp
        n   == dst.len + Len(src)
    IN  IF n <= dst.cap
        THEN LET old == Pad(s.heap[dst.arr], n)
                 arr == [k \in 1..Len(old) |->
                           IF k > dst.len /\ k <= n THEN src[k - dst.len] ELSE old[k]]
             IN  [s EXCEPT !.heap[dst.arr] = arr, !.m.tmp.len = n, !.m.pc = "64c"]
        ELSE LET elems == View(s.heap, dst) \o src
             IN  [s EXCEPT !.heap = NewArray(s.heap, elems),
                           !.m.tmp = NewSlice(s.heap, elems, Len(elems)),
                           !.m.pc = "64c"]

\* line 64: the assignment to cm.clips
Step64c(s) == [s EXCEPT !.clips = s.m.tmp, !.m.tmp = EmptySlice, !.m.i = 0, !.m.pc = "70a"]

\* line 70: append([]string{content}, cm.clips...) builds a new array
Step70a(s) ==
  LET elems == <<s.m.content>> \o View(s.heap, s.clips)
  IN  [s EXCEPT !.heap = NewArray(s.heap, elems),
                !.m.tmp = NewSlice(s.heap, elems, Len(elems)),
                !.m.pc = "70b"]

\* line 70: the assignment to cm.clips
Step70b(s) == [s EXCEPT !.clips = s.m.tmp, !.m.tmp = EmptySlice, !.m.pc = "73"]

\* The length test off by one.
TooLongOffByOne(n) == n > maxClips + 1

\* line 73
TooLong(n) == n > maxClips

Step73(s) == IF TooLong(s.clips.len) THEN Goto(s, "74a") ELSE Goto(s, "77")

\* line 74: cm.clips[:maxClips]
Step74a(s) ==
  IF maxClips > s.clips.cap THEN Panic(s)
  ELSE [s EXCEPT !.m.tmp = [s.clips EXCEPT !.len = maxClips], !.m.pc = "74b"]

\* line 74: the assignment to cm.clips
Step74b(s) == [s EXCEPT !.clips = s.m.tmp, !.m.tmp = EmptySlice, !.m.pc = "77"]

\* line 77
Step77(s) == [s EXCEPT !.lastContent = s.m.content, !.m.pc = "78a"]

\* lines 46-50: saveClips marshals cm.clips
Step78a(s) == [s EXCEPT !.m.data = Marshal(View(s.heap, s.clips)), !.m.pc = "78b"]

\* line 52: saveClips writes the file
Step78b(s) == [s EXCEPT !.dataFile = s.m.data, !.m = [IdleLocals EXCEPT !.pc = "ret"]]

AddClipStep(s) ==
  CASE s.m.pc = "57"  -> Step57(s)
    [] s.m.pc = "62"  -> Step62(s)
    [] s.m.pc = "64a" -> Step64a(s)
    [] s.m.pc = "64b" -> Step64b(s)
    [] s.m.pc = "64c" -> Step64c(s)
    [] s.m.pc = "70a" -> Step70a(s)
    [] s.m.pc = "70b" -> Step70b(s)
    [] s.m.pc = "73"  -> Step73(s)
    [] s.m.pc = "74a" -> Step74a(s)
    [] s.m.pc = "74b" -> Step74b(s)
    [] s.m.pc = "77"  -> Step77(s)
    [] s.m.pc = "78a" -> Step78a(s)
    [] s.m.pc = "78b" -> Step78b(s)

Returned(m) == m.pc \in {"ret", "panic"}

RECURSIVE AddClipRun(_)
AddClipRun(s) == IF Returned(s.m) THEN s ELSE AddClipRun(AddClipStep(s))

\* addClip run from call to return with nothing in between
addClip(s, content) == AddClipRun([s EXCEPT !.m = Call(content)])

----------------------------------------------------------------------------
(* src/multiclip/src/main.go: ClipboardManager, every method under cm.mu   *)

\* line 37
\* The limit one byte too low: a text of exactly 200 bytes turned away.
RejectedFrom200(text) == text = <<>> \/ ByteLen(text) >= MaxTextLen

\* lines 36-39: the text is already trimmed; len counts bytes
Rejected(text) == text = <<>> \/ ByteLen(text) > MaxTextLen

\* The duplicate check left out.
KnownNever(history, text) == FALSE

\* lines 42-46
Known(history, text) == \E k \in 1..Len(history) : history[k] = text

\* lines 31-55; s = [history, heap]
AddItem(s, raw) ==
  LET text == TrimSpace(raw)
      old  == View(s.heap, s.history)
  IN  IF Rejected(text) \/ Known(old, text) THEN s
      ELSE LET elems == <<text>> \o old
               h     == NewSlice(s.heap, elems, Len(elems))
           IN  [s EXCEPT !.heap = NewArray(s.heap, elems),
                         !.history = IF h.len > maxSize THEN [h EXCEPT !.len = maxSize] ELSE h]

\* lines 57-64: a copy in a new array; the result is [heap, slice]
GetHistory(h, history) ==
  LET elems == View(h, history)
  IN  [heap |-> NewArray(h, elems), slice |-> NewSlice(h, elems, Len(elems))]

\* src/main.go lines 81-83: the slice itself
getClips(h, clips) == [heap |-> h, slice |-> clips]

----------------------------------------------------------------------------
(* Bounds and the texts the environment offers *)

NumLetters == 2

Alphabet == <<"a", "b", "c", "d", "e", "f", "g", "h">>

Letter(k) == Str(Alphabet[k])

LetterTexts == {Letter(k) : k \in 1..NumLetters}

Long201 == Rep(MaxTextLen + 1, "x")

\* blank texts, a padded letter, and a text one byte over the limit
OddTexts == {<<>>, Str(" "), Str(" ") \o Str("a") \o Str("\n"), Long201}

Texts == LetterTexts \cup OddTexts

----------------------------------------------------------------------------
(* State after construction *)

NoOp == [op |-> "none", arg |-> <<>>, run |-> 0, eff |-> FALSE, chain |-> 0]

NoLin == [on |-> FALSE, states |-> {}, calls |-> 0]

NoSince == [on |-> FALSE, texts |-> {}]

NoHist == [mode |-> "off", cleared |-> FALSE, held |-> FALSE, clicked |-> FALSE,
           before |-> <<>>, waiting |-> 0, hydrated |-> FALSE]

\* main has run and onReady has returned: both goroutines run
Running == [phase |-> "running", init |-> "ok", mon |-> TRUE, menu |-> TRUE,
            cancelled |-> FALSE, quit |-> FALSE]

\* src/main.go lines 24-35 with no data file; make([]string, 0, maxClips)
NewClipboardManagerMain == [clips |-> [arr |-> 1, len |-> 0, cap |-> maxClips], lastContent |-> <<>>]

\* src/multiclip/src/main.go lines 24-29
NewClipboardManagerMulti == [history |-> [arr |-> 1, len |-> 0, cap |-> maxSize]]

InitStore ==
  /\ variant \in {"main", "multiclip"}
  /\ cm = IF variant = "main" THEN NewClipboardManagerMain ELSE NewClipboardManagerMulti
  /\ heap = << <<>> >>
  /\ dataFile = NoFile
  /\ clipboard = <<>>
  /\ changed = FALSE
  /\ items = {}
  /\ mon = IdleLocals
  /\ menu = [pc |-> "idle", clips |-> EmptySlice, returned |-> <<>>]
  /\ clr = [pc |-> "wait", data |-> NoData]      \* onReady has built the menu
  /\ clk = [pc |-> "wait", content |-> <<>>]
  /\ crashed = FALSE
  /\ inserted = <<>>

Init == InitStore /\ last = NoOp /\ lin = NoLin /\ since = NoSince /\ sys = Running /\ hist = NoHist

\* The history as the program holds it.
Entries == IF variant = "main" THEN View(heap, cm.clips) ELSE View(heap, cm.history)

Elems(seq) == {seq[k] : k \in 1..Len(seq)}

----------------------------------------------------------------------------
(* The operations of the store run one at a time (specification Spec)      *)

\* What the operations of the store read and write.
Observable == <<Entries, IF variant = "main" THEN cm.lastContent ELSE <<>>, dataFile>>

\* history variable: the operation, its argument, how many Inserts of the
\* same trimmed text ran in a row (run, at most 2), whether the first of
\* them changed the store (eff), and how far the sequence
\* Insert(t), click on t, Insert(t), Insert(t), ... has come (chain)
Note(op, arg, eff) ==
  LET again == op = "Insert" /\ last.op = "Insert" /\ TrimSpace(last.arg) = TrimSpace(arg)
  IN  [op    |-> op,
       arg   |-> arg,
       run   |-> IF again THEN 2 ELSE IF op = "Insert" THEN 1 ELSE 0,
       eff   |-> IF again THEN last.eff ELSE eff,
       chain |-> IF op = "Click" /\ last.op = "Insert" /\ TrimSpace(last.arg) = arg THEN 1
                 ELSE IF op = "Insert" /\ last.chain \in {1, 2}
                         /\ TrimSpace(arg) = TrimSpace(last.arg) THEN 2
                 ELSE 0]

StoreMain(m) == [clips |-> cm.clips, lastContent |-> cm.lastContent, heap |-> heap,
                 dataFile |-> dataFile, m |-> m]

\* src/main.go lines 55-79: addClip from call to return
AddClipCall(t) ==
  /\ variant = "main"
  /\ LET r == addClip(StoreMain(IdleLocals), t)
         c == Canon(r.heap, <<r.clips>>)
     IN  /\ cm' = [clips |-> c.roots[1], lastContent |-> r.lastContent]
         /\ heap' = c.heap
         /\ dataFile' = r.dataFile
  /\ UNCHANGED <<variant, sys, hist, clipboard, changed, items, tasks, lin, since>>

\* src/multiclip/src/main.go lines 31-55: AddItem under cm.mu
AddItemCall(t) ==
  /\ variant = "multiclip"
  /\ LET r == AddItem([history |-> cm.history, heap |-> heap], t)
         c == Canon(r.heap, <<r.history>>)
     IN  /\ cm' = [history |-> c.roots[1]]
         /\ heap' = c.heap
  /\ UNCHANGED <<variant, sys, hist, dataFile, clipboard, changed, items, tasks, lin, since>>

InsertMain(t) ==
  /\ AddClipCall(t)
  /\ UNCHANGED inserted
  /\ last' = Note("Insert", t, Observable' # Observable)

InsertMulti(t) ==
  /\ AddItemCall(t)
  /\ UNCHANGED inserted
  /\ last' = Note("Insert", t, Observable' # Observable)

\* src/main.go lines 181-185: the "Clear History" click
ClearMain ==
  /\ variant = "main"
  /\ cm' = [cm EXCEPT !.clips = EmptySlice]
  /\ heap' = <<>>
  /\ dataFile' = Marshal(<<>>)
  /\ UNCHANGED <<variant, sys, hist, clipboard, changed, items, tasks, inserted, lin, since>>
  /\ last' = Note("Clear", <<>>, Observable' # Observable)

\* src/main.go lines 140-175: updateMenu shows the clips and starts one click
\* handler per clip
UpdateMenuMain ==
  /\ variant = "main"
  /\ items' = Elems(View(heap, getClips(heap, cm.clips).slice))
  /\ UNCHANGED <<variant, sys, hist, cm, heap, dataFile, clipboard, changed, tasks, inserted, lin, since>>
  /\ last' = Note("Menu", <<>>, FALSE)

\* src/multiclip/src/main.go lines 211-244: updateMenuItems
UpdateMenuMulti ==
  /\ variant = "multiclip"
  /\ LET r == GetHistory(heap, cm.history)
     IN  items' = Elems(View(r.heap, r.slice))
  /\ UNCHANGED <<variant, sys, hist, cm, heap, dataFile, clipboard, changed, tasks, inserted, lin, since>>
  /\ last' = Note("Menu", <<>>, FALSE)

\* src/main.go lines 170-173 and 85-88: a click on a shown clip runs setClip;
\* the handler of a menu item takes one click
ClickMain(c) ==
  /\ variant = "main"
  /\ c \in items
  /\ clipboard' = c
  /\ changed' = TRUE
  /\ items' = items \ {c}
  /\ cm' = [cm EXCEPT !.lastContent = c]
  /\ UNCHANGED <<variant, sys, hist, heap, dataFile, tasks, inserted, lin, since>>
  /\ last' = Note("Click", c, cm' # cm)

\* src/multiclip/src/main.go lines 246-260: handleMenuItemClick
ClickMulti(c) ==
  /\ variant = "multiclip"
  /\ c \in items
  /\ clipboard' = c
  /\ changed' = TRUE
  /\ items' = items \ {c}
  /\ UNCHANGED <<variant, sys, hist, cm, heap, dataFile, tasks, inserted, lin, since>>
  /\ last' = Note("Click", c, FALSE)

Next ==
  \/ \E t \in Texts : InsertMain(t)
  \/ \E t \in Texts : InsertMulti(t)
  \/ ClearMain
  \/ UpdateMenuMain
  \/ UpdateMenuMulti
  \/ \E c \in items : ClickMain(c)
  \/ \E c \in items : ClickMulti(c)

Spec == Init /\ [][Next]_vars

----------------------------------------------------------------------------
(* Properties of the operations run one at a time *)

LastText == TrimSpace(last.arg)

\* C3: Insert of a value present at index k > 0 moves it to index 0 and keeps
\* the other entries in their order.
C3_PresentValueMovesToFront ==
  [][(last'.op = "Insert" /\ IndexOf(Entries, TrimSpace(last'.arg)) > 1)
       => Entries' = <<TrimSpace(last'.arg)>>
                       \o RemoveAt(Entries, IndexOf(Entries, TrimSpace(last'.arg)))]_vars

\* C5 as stated: after two Inserts of the same trimmed text in a row the text
\* occurs exactly once, at index 0, and the second Insert keeps the length.
C5_TwiceLeavesOneAtFront ==
  [][(last'.op = "Insert" /\ last'.run = 2)
       => /\ Count(Entries', TrimSpace(last'.arg)) = 1
          /\ Entries'[1] = TrimSpace(last'.arg)
          /\ Len(Entries') = Len(Entries)]_vars

\* C5 amended: the second of two Inserts of the same trimmed text in a row
\* changes nothing, the text occurs at most once, and it occurs at index 0
\* when the first of the two changed the store.
C5_SecondInsertChangesNothing ==
  [][(last'.op = "Insert" /\ last'.run = 2)
       => /\ Observable' = Observable
          /\ Count(Entries', TrimSpace(last'.arg)) <= 1
          /\ last'.eff => (Entries' # <<>> /\ Entries'[1] = TrimSpace(last'.arg))]_vars

C5_Witness ==
  /\ last.op = "Insert" /\ last.run = 2 /\ last.eff
  /\ Len(Entries) >= 2 /\ Entries[1] = LastText

\* C6: Insert of an empty or all-whitespace text changes neither the entries
\* nor lastContent nor the data file, and no entry is ever blank.
C6_BlankInsertIsNoOp ==
  /\ [][(last'.op = "Insert" /\ TrimSpace(last'.arg) = <<>>) => Observable' = Observable]_vars
  /\ [](\A k \in 1..Len(Entries) : Entries[k] # <<>> /\ TrimSpace(Entries[k]) = Entries[k])

C6_Witness ==
  /\ last.op = "Insert" /\ last.arg = Str(" ")
  /\ Entries # <<>>
  /\ variant = "main" => (cm.lastContent # <<>> /\ dataFile # NoFile)

----------------------------------------------------------------------------
(* Inserts of pairwise distinct non-empty texts into a new store           *)
(* (specification SpecDistinct)                                            *)

NumFresh == 7

MaxInserts == 8

FreshLetters == {Letter(k) : k \in 1..NumFresh}

\* a text that trimming changes into one that is no letter
Padded == Str(" ") \o Str("z") \o Str("\n")

NewTexts == FreshLetters \cup OddTexts \cup {Padded}

\* The letters come in alphabetical order, the other texts at any time.
Offered(t) ==
  /\ Len(inserted) < MaxInserts
  /\ t # <<>>
  /\ t \notin Elems(inserted)
  /\ \/ t \in OddTexts \cup {Padded}
     \/ \E k \in 1..NumFresh :
          /\ t = Letter(k)
          /\ \A j \in 1..(k - 1) : Letter(j) \in Elems(inserted)

InsertNewMain(t) ==
  /\ Offered(t)
  /\ AddClipCall(t)
  /\ inserted' = Append(inserted, t)
  /\ last' = Note("Insert", t, Observable' # Observable)

InsertNewMulti(t) ==
  /\ Offered(t)
  /\ AddItemCall(t)
  /\ inserted' = Append(inserted, t)
  /\ last' = Note("Insert", t, Observable' # Observable)

NextDistinct ==
  \/ \E t \in NewTexts : InsertNewMain(t)
  \/ \E t \in NewTexts : InsertNewMulti(t)

SpecDistinct == Init /\ [][NextDistinct]_vars

Reverse(seq) == [k \in 1..Len(seq) |-> seq[Len(seq) + 1 - k]]

FirstN(seq, n) == SubSeq(seq, 1, IF Len(seq) < n THEN Len(seq) ELSE n)

Trimmed(seq) == [k \in 1..Len(seq) |-> TrimSpace(seq[k])]

\* C4 as stated: after more than capacity pairwise distinct non-empty values
\* the history is the capacity most recent ones, most recent first.
C4_KeepsMostRecentFive ==
  Len(inserted) > maxClips => Entries = FirstN(Reverse(Trimmed(inserted)), maxClips)

\* The values are non-empty and pairwise distinct after trimming and, for
\* AddItem, at most 200 bytes long after trimming.
Accepted(seq) ==
  /\ NoDup(Trimmed(seq))
  /\ \A k \in 1..Len(seq) :
       /\ TrimSpace(seq[k]) # <<>>
       /\ variant = "multiclip" => ByteLen(TrimSpace(seq[k])) <= MaxTextLen

\* C4 amended: for values that are non-empty and pairwise distinct after
\* trimming (and within the 200 bytes of AddItem) the history is the
\* capacity most recent trimmed values, most recent first.
C4_KeepsMostRecentFiveAccepted ==
  Accepted(inserted) => Entries = FirstN(Reverse(Trimmed(inserted)), maxClips)

C4_Witness ==
  /\ Accepted(inserted)
  /\ Len(inserted) = maxClips + 2
  /\ Entries = FirstN(Reverse(Trimmed(inserted)), maxClips)
  /\ \E k \in 1..Len(inserted) : TrimSpace(inserted[k]) # inserted[k]

----------------------------------------------------------------------------
(* The goroutines interleaved (specification SpecConc).  In src/main.go    *)
(* nothing orders their accesses, so every access to a shared field is a   *)
(* step of its own; reading or writing a slice header, and the copy that   *)
(* append makes, are taken as one access each.  In                         *)
(* src/multiclip/src/main.go AddItem and GetHistory hold cm.mu from their  *)
(* first statement to their return and are one step each.                  *)

ghosts == <<last, inserted, lin, since>>

\* History variable lin (used when lin.on): the results that running one at
\* a time, in some order that respects which operation returned before
\* which was called, the operations called so far can have had.  Each is
\* [e, l, done]: entries, lastContent, and the operations in flight that the
\* order has already run.
PendingOf(m, r, k) ==
  (IF m.pc \in {"idle", "ch"} THEN {} ELSE {[id |-> "mon", arg |-> m.content]})
    \cup (IF r.pc \in {"184a", "184b"} THEN {[id |-> "clr", arg |-> <<>>]} ELSE {})
    \cup (IF k.pc = "87" THEN {[id |-> "clk", arg |-> k.content]} ELSE {})

SeqInsert(c, t) ==
  LET whole == [arr |-> 1, len |-> Len(c.e), cap |-> Len(c.e)]
  IN  IF variant = "main"
      THEN LET r == addClip([clips |-> whole, lastContent |-> c.l, heap |-> <<c.e>>,
                             dataFile |-> NoFile, m |-> IdleLocals], t)
           IN  [c EXCEPT !.e = View(r.heap, r.clips), !.l = r.lastContent]
      ELSE LET r == AddItem([history |-> whole, heap |-> <<c.e>>], t)
           IN  [c EXCEPT !.e = View(r.heap, r.history)]

Apply(c, op) ==
  LET d == [c EXCEPT !.done = @ \cup {op.id}]
  IN  CASE op.id = "mon" -> SeqInsert(d, op.arg)
        [] op.id = "clr" -> [d EXCEPT !.e = <<>>]
        [] op.id = "clk" -> [d EXCEPT !.l = op.arg]

Expand(S, P) == S \cup {Apply(x[1], x[2]) : x \in {y \in S \X P : y[2].id \notin y[1].done}}

Closure(S, P) == Expand(Expand(Expand(S, P), P), P)

LinCall(P) == IF lin.on THEN [lin EXCEPT !.states = Closure(@, P), !.calls = @ + 1] ELSE lin

\* with lin on, at most MaxCalls operations are called
MaxCalls == 3

MayCall == lin.on => lin.calls < MaxCalls

LinReturn(l, id) ==
  IF l.on THEN [l EXCEPT !.states = {[c EXCEPT !.done = @ \ {id}] : c \in {d \in @ : id \in d.done}}]
  ELSE l

LinSnapshot(v) ==
  IF lin.on THEN [lin EXCEPT !.states = Closure({c \in @ : c.e = v}, PendingOf(mon, clr, clk))]
  ELSE lin


\* The process runs: it has started and has not ended.
Up == sys.phase \in {"running", "stopping"}

\* with hist.mode = "count", at most MaxWaiting click handlers are started
MaxWaiting == 6

MayShow(n) == hist.mode = "count" => hist.waiting + n <= MaxWaiting

\* History variable hist.  cleared: the clipboard has held the same text
\* since a Clear.  held: that Clear found no operation in flight and the
\* text of the clipboard already observed.  clicked, before: a click on an entry that was not
\* the first found no operation in flight and the entries before; the
\* clipboard has held the clicked text since.  waiting: the click handlers
\* started less those that took their click.  hydrated: the process was
\* started on a data file that held an array of strings.
HistCopy(t) ==
  [hist EXCEPT !.cleared = @ /\ t = clipboard,
               !.held = @ /\ t = clipboard,
               !.clicked = @ /\ t = clipboard]

HistClear ==
  [hist EXCEPT !.cleared = hist.mode = "held",
               !.held = /\ hist.mode = "held"
                        /\ mon.pc = "idle" /\ clk.pc = "wait"
                        /\ TrimSpace(clipboard) = cm.lastContent,
               !.clicked = FALSE]

HistClick(c) ==
  LET found == /\ hist.mode = "click"
               /\ mon.pc = "idle" /\ clr.pc \notin {"184a", "184b"}
               /\ IndexOf(Entries, c) > 1
  IN  [hist EXCEPT !.cleared = @ /\ c = clipboard,
                   !.held = @ /\ c = clipboard,
                   !.clicked = found,
                   !.before = IF found THEN Entries ELSE <<>>,
                   !.waiting = IF hist.mode = "count" THEN @ - 1 ELSE @]

HistShow(n) == [hist EXCEPT !.waiting = IF hist.mode = "count" THEN @ + n ELSE @]

\* The user copies a text in some application.
UserCopy(t) ==
  /\ ~crashed
  /\ clipboard' = t
  /\ changed' = TRUE
  /\ hist' = HistCopy(t)
  /\ UNCHANGED <<variant, sys, cm, heap, dataFile, items, tasks, ghosts>>

\* src/main.go lines 112-117: a tick of monitorClipboard reads the clipboard
\* and calls addClip
MonTickMain ==
  /\ variant = "main" /\ ~crashed
  /\ Up /\ sys.mon
  /\ mon.pc = "idle"
  /\ clipboard # <<>>
  /\ MayCall
  /\ mon' = Call(clipboard)
  /\ since' = IF since.on THEN [since EXCEPT !.texts = @ \cup {TrimSpace(clipboard)}] ELSE since
  /\ lin' = LinCall(PendingOf(mon', clr, clk))
  /\ UNCHANGED <<variant, sys, hist, cm, heap, dataFile, clipboard, changed, items, menu, clr, clk,
                 crashed, last, inserted>>

\* one step of the addClip call of monitorClipboard; a panic ends the process
MonStepMain ==
  /\ variant = "main" /\ ~crashed
  /\ Up /\ sys.mon
  /\ mon.pc # "idle"
  /\ LET r == AddClipStep(StoreMain(mon))
         c == Canon(r.heap, <<r.clips, r.m.tmp, menu.clips>>)
     IN  /\ cm' = [clips |-> c.roots[1], lastContent |-> r.lastContent]
         /\ heap' = c.heap
         /\ dataFile' = r.dataFile
         /\ mon' = IF Returned(r.m) THEN IdleLocals ELSE [r.m EXCEPT !.tmp = c.roots[2]]
         /\ menu' = [menu EXCEPT !.clips = c.roots[3]]
         /\ crashed' = (r.m.pc = "panic")
         /\ lin' = IF r.m.pc = "ret" THEN LinReturn(lin, "mon") ELSE lin
  /\ UNCHANGED <<variant, sys, hist, clipboard, changed, items, clr, clk, last, inserted, since>>

\* src/main.go lines 141-147: updateMenu hides the shown items and takes
\* the clips
MenuGetMain ==
  /\ variant = "main" /\ ~crashed
  /\ Up /\ sys.menu
  /\ menu.pc = "idle"
  /\ LET r == getClips(heap, cm.clips)
     IN  menu' = [pc |-> "show", clips |-> r.slice, returned |-> View(r.heap, r.slice)]
  /\ items' = {}
  /\ clr' = IF clr.pc = "wait" THEN [clr EXCEPT !.pc = "off"] ELSE clr
  /\ lin' = LinSnapshot(View(heap, cm.clips))
  /\ UNCHANGED <<variant, sys, hist, cm, heap, dataFile, clipboard, changed, mon, clk, crashed,
                 last, inserted, since>>

\* src/main.go lines 149-185: updateMenu ranges over the clips it took,
\* starts a click handler for each and one for "Clear History"
MenuShowMain ==
  /\ variant = "main" /\ ~crashed
  /\ MayShow(menu.clips.len)
  /\ Up /\ sys.menu
  /\ menu.pc = "show"
  /\ items' = Elems(View(heap, menu.clips))
  /\ LET c == Canon(heap, <<cm.clips, mon.tmp, EmptySlice>>)
     IN  /\ heap' = c.heap
         /\ cm' = [cm EXCEPT !.clips = c.roots[1]]
         /\ mon' = [mon EXCEPT !.tmp = c.roots[2]]
  /\ menu' = [pc |-> "idle", clips |-> EmptySlice, returned |-> <<>>]
  /\ clr' = IF clr.pc = "off" THEN [clr EXCEPT !.pc = "wait"] ELSE clr
  /\ hist' = HistShow(menu.clips.len)
  /\ UNCHANGED <<variant, sys, dataFile, clipboard, changed, clk, crashed, ghosts>>

\* src/main.go lines 182-183: the click on "Clear History" empties cm.clips
ClearClick ==
  /\ variant = "main" /\ ~crashed
  /\ Up
  /\ clr.pc = "wait"
  /\ MayCall
  /\ LET c == Canon(heap, <<EmptySlice, mon.tmp, menu.clips>>)
     IN  /\ heap' = c.heap
         /\ cm' = [cm EXCEPT !.clips = EmptySlice]
         /\ mon' = [mon EXCEPT !.tmp = c.roots[2]]
         /\ menu' = [menu EXCEPT !.clips = c.roots[3]]
  /\ clr' = [clr EXCEPT !.pc = "184a"]
  /\ since' = [on |-> TRUE,
               texts |-> IF mon.pc = "idle" THEN {} ELSE {TrimSpace(mon.content)}]
  /\ lin' = LinCall(PendingOf(mon, clr', clk))
  /\ hist' = HistClear
  /\ UNCHANGED <<variant, sys, dataFile, clipboard, changed, items, clk, crashed, last, inserted>>

\* src/main.go lines 184 and 47: saveClips marshals cm.clips
ClearMarshal ==
  /\ variant = "main" /\ ~crashed
  /\ Up
  /\ clr.pc = "184a"
  /\ clr' = [pc |-> "184b", data |-> Marshal(View(heap, cm.clips))]
  /\ UNCHANGED <<variant, sys, hist, cm, heap, dataFile, clipboard, changed, items, mon, menu, clk,
                 crashed, ghosts>>

\* src/main.go line 52: saveClips writes the file; the handler ends
ClearWrite ==
  /\ variant = "main" /\ ~crashed
  /\ Up
  /\ clr.pc = "184b"
  /\ dataFile' = clr.data
  /\ clr' = [pc |-> "off", data |-> NoData]
  /\ lin' = LinReturn(lin, "clr")
  /\ UNCHANGED <<variant, sys, hist, cm, heap, clipboard, changed, items, mon, menu, clk, crashed,
                 last, inserted, since>>

\* src/main.go lines 171-172 and 86: a click on a shown clip, setClip writes
\* the clipboard
ClickWriteMain(c) ==
  /\ variant = "main" /\ ~crashed
  /\ Up
  /\ clk.pc = "wait"
  /\ c \in items
  /\ MayCall
  /\ items' = items \ {c}
  /\ clipboard' = c
  /\ changed' = TRUE
  /\ clk' = [pc |-> "87", content |-> c]
  /\ lin' = LinCall(PendingOf(mon, clr, clk'))
  /\ hist' = HistClick(c)
  /\ UNCHANGED <<variant, sys, cm, heap, dataFile, mon, menu, clr, crashed, last, inserted, since>>

\* src/main.go line 87: setClip sets lastContent
ClickSetMain ==
  /\ variant = "main" /\ ~crashed
  /\ Up
  /\ clk.pc = "87"
  /\ cm' = [cm EXCEPT !.lastContent = clk.content]
  /\ clk' = [pc |-> "wait", content |-> <<>>]
  /\ lin' = LinReturn(lin, "clk")
  /\ UNCHANGED <<variant, sys, hist, heap, dataFile, clipboard, changed, items, mon, menu, clr, crashed,
                 last, inserted, since>>

\* src/multiclip/src/main.go line 124: clipboard.Watch reports a change of
\* the clipboard with the text it holds
WatchMulti ==
  /\ variant = "multiclip"
  /\ Up /\ sys.mon /\ ~sys.cancelled
  /\ changed /\ mon.pc = "idle"
  /\ changed' = FALSE
  /\ mon' = IF clipboard = <<>> THEN mon ELSE [IdleLocals EXCEPT !.pc = "ch", !.content = clipboard]
  /\ UNCHANGED <<variant, sys, hist, cm, heap, dataFile, clipboard, items, menu, clr, clk, crashed, ghosts>>

\* src/multiclip/src/main.go lines 128-135: monitorClipboard receives the
\* text and calls AddItem
RecvMulti ==
  /\ variant = "multiclip"
  /\ Up /\ sys.mon
  /\ mon.pc = "ch"
  /\ MayCall
  /\ LET r == AddItem([history |-> cm.history, heap |-> heap], mon.content)
         c == Canon(r.heap, <<r.history, EmptySlice, menu.clips>>)
     IN  /\ cm' = [history |-> c.roots[1]]
         /\ heap' = c.heap
         /\ menu' = [menu EXCEPT !.clips = c.roots[3]]
  /\ mon' = IdleLocals
  /\ lin' = LinReturn(LinCall({[id |-> "mon", arg |-> mon.content]}), "mon")
  /\ UNCHANGED <<variant, sys, hist, dataFile, clipboard, changed, items, clr, clk, crashed,
                 last, inserted, since>>

\* src/multiclip/src/main.go line 218: updateMenuItems takes the history
MenuGetMulti ==
  /\ variant = "multiclip"
  /\ Up /\ sys.menu
  /\ menu.pc = "idle"
  /\ LET r == GetHistory(heap, cm.history)
         c == Canon(r.heap, <<cm.history, EmptySlice, r.slice>>)
     IN  /\ heap' = c.heap
         /\ cm' = [history |-> c.roots[1]]
         /\ menu' = [pc |-> "show", clips |-> c.roots[3], returned |-> View(r.heap, r.slice)]
         /\ lin' = LinSnapshot(View(r.heap, r.slice))
  /\ UNCHANGED <<variant, sys, hist, dataFile, clipboard, changed, items, mon, clr, clk, crashed,
                 last, inserted, since>>

\* src/multiclip/src/main.go lines 220-243: updateMenuItems hides the shown
\* items and starts a click handler for each entry it took
MenuShowMulti ==
  /\ variant = "multiclip"
  /\ MayShow(menu.clips.len)
  /\ Up /\ sys.menu
  /\ menu.pc = "show"
  /\ items' = Elems(View(heap, menu.clips))
  /\ LET c == Canon(heap, <<cm.history, EmptySlice, EmptySlice>>)
     IN  /\ heap' = c.heap
         /\ cm' = [history |-> c.roots[1]]
  /\ menu' = [pc |-> "idle", clips |-> EmptySlice, returned |-> <<>>]
  /\ hist' = HistShow(menu.clips.len)
  /\ UNCHANGED <<variant, sys, dataFile, clipboard, changed, mon, clr, clk, crashed, ghosts>>

\* src/multiclip/src/main.go lines 253-256: handleMenuItemClick writes the
\* clipboard
ClickWriteMulti(c) ==
  /\ variant = "multiclip"
  /\ Up
  /\ c \in items
  /\ items' = items \ {c}
  /\ clipboard' = c
  /\ changed' = TRUE
  /\ hist' = HistClick(c)
  /\ UNCHANGED <<variant, sys, cm, heap, dataFile, tasks, ghosts>>

NextConc ==
  \/ \E t \in LetterTexts : UserCopy(t)
  \/ MonTickMain
  \/ MonStepMain
  \/ MenuGetMain
  \/ MenuShowMain
  \/ ClearClick
  \/ ClearMarshal
  \/ ClearWrite
  \/ \E c \in items : ClickWriteMain(c)
  \/ ClickSetMain
  \/ WatchMulti
  \/ RecvMulti
  \/ MenuGetMulti
  \/ MenuShowMulti
  \/ \E c \in items : ClickWriteMulti(c)

SpecConc == Init /\ [][NextConc]_vars

\* the same goroutines with the history variable lin switched on
InitLin ==
  /\ InitStore
  /\ last = NoOp
  /\ since = NoSince
  /\ sys = Running
  /\ hist = NoHist
  /\ lin = [on |-> TRUE, states |-> {[e |-> <<>>, l |-> <<>>, done |-> {}]}, calls |-> 0]

SpecLin == InitLin /\ [][NextConc]_vars

LastContent == IF variant = "main" THEN cm.lastContent ELSE <<>>

\* C10 (as stated): under every interleaving of the clipboard-watch task,
\* the Clear handler, the click handlers and the menu refresh, what a reader
\* is given and what the store holds when no operation is in flight is the
\* result of running the operations one at a time in some order.
C10_Serializable ==
  lin.on =>
    /\ lin.states # {}
    /\ PendingOf(mon, clr, clk) = {} =>
         \E c \in lin.states : c.e = Entries /\ c.l = LastContent

\* C2 (as stated): entries never holds two equal strings.
C2_NoDuplicates == NoDup(Entries)

\* C9 (as stated): what Snapshot returned keeps its length and its elements
\* while its caller uses it.
C9_SnapshotIsIndependent == menu.pc = "show" => View(heap, menu.clips) = menu.returned

\* C7 (as stated): once a Clear and the Insert that ran along with it have
\* completed, the history holds no text but those inserted along with or
\* after that Clear.
C7_NothingSurvivesClear ==
  since.on /\ ~crashed /\ PendingOf(mon, clr, clk) = {} => Elems(Entries) \subseteq since.texts

----------------------------------------------------------------------------
(* The history filled with fresh texts while the menu refreshes            *)
(* (specification SpecFill): the user copies the letters in order, nobody  *)
(* clicks.                                                                 *)

NextFresh ==
  IF clipboard = <<>> THEN 1
  ELSE 1 + CHOOSE k \in 1..NumFresh : Letter(k) = clipboard

UserCopyNext ==
  /\ NextFresh <= NumFresh
  /\ UserCopy(Letter(NextFresh))

NextFill ==
  \/ UserCopyNext
  \/ MonTickMain
  \/ MonStepMain
  \/ MenuGetMain
  \/ MenuShowMain
  \/ WatchMulti
  \/ RecvMulti
  \/ MenuGetMulti
  \/ MenuShowMulti

SpecFill == Init /\ [][NextFill]_vars

\* C1 (as stated): whatever Insert is doing, a sequence that Snapshot
\* returns to the menu refresh has at most capacity (5) elements.
C1_SnapshotWithinCapacity == menu.pc = "show" => Len(menu.returned) <= maxClips

----------------------------------------------------------------------------
(* Persistence while the goroutines interleave *)

\* C11 (as stated): once every addClip and every "Clear History" handler
\* that changed the history has returned, ~/.multiclip.json holds the
\* history that is in memory.
C11_FileHoldsEntries ==
  variant = "main" /\ ~crashed /\ PendingOf(mon, clr, clk) = {} /\ dataFile # NoFile
    => dataFile = Marshal(Entries)

----------------------------------------------------------------------------
(* src/main.go across restarts (specification SpecPersist): the operations *)
(* run one at a time, the process is started anew, and between two runs    *)
(* the data file is whatever the file system holds.                        *)

\* a letter, two lines, and a byte that is no UTF-8
PersistTexts == {Letter(1), Str("a") \o Str("\n") \o Str("b"), Str("0xFF")}

JsonNumber == [type |-> "number", text |-> Str("1")]

File(kind, elems) == [json |-> kind, elems |-> elems]

\* what may be found in place of ~/.multiclip.json
FoundFiles ==
  {File("absent", <<>>), File("unreadable", <<>>), File("syntax", <<>>), File("null", <<>>),
   File("object", <<>>),
   File("array", <<>>),
   File("array", <<JsonNumber>>),
   File("array", <<JsonString(Str("a")), JsonNumber, JsonString(Str("b"))>>),
   File("array", <<JsonString(Str("a")), JsonString(Str("a"))>>),
   File("array", <<JsonString(Str(" "))>>),
   File("array", [k \in 1..(maxClips + 1) |-> JsonString(Letter(k))])}

\* no array of strings
Malformed(file) ==
  \/ file.json \notin {"absent", "unreadable", "array"}
  \/ file.json = "array" /\ \E k \in 1..Len(file.elems) : file.elems[k].type # "string"

InitPersist == Init /\ variant = "main"

\* the data file is replaced, damaged or removed while the program is not
\* writing it
Tamper(file) ==
  /\ variant = "main"
  /\ dataFile # file
  /\ dataFile' = file
  /\ UNCHANGED <<variant, sys, hist, cm, heap, clipboard, changed, items, tasks, inserted, lin, since>>
  /\ last' = Note("Tamper", <<>>, FALSE)

\* src/main.go lines 93-106, 24-35 and 121-126: the process ends and is
\* started again; NewClipboardManager loads the clips and onReady builds
\* the menu
Restart ==
  /\ variant = "main"
  /\ LET r == loadClips(<< <<>> >>, NewClipboardManagerMain.clips, dataFile)
         c == Canon(r.heap, <<r.slice>>)
     IN  /\ cm' = [clips |-> c.roots[1], lastContent |-> <<>>]
         /\ heap' = c.heap
         /\ items' = Elems(View(r.heap, r.slice))
  /\ changed' = FALSE
  /\ mon' = IdleLocals
  /\ menu' = [pc |-> "idle", clips |-> EmptySlice, returned |-> <<>>]
  /\ clr' = [pc |-> "wait", data |-> NoData]
  /\ clk' = [pc |-> "wait", content |-> <<>>]
  /\ crashed' = FALSE
  /\ hist' = [hist EXCEPT !.hydrated = dataFile.json = "array" /\ ~Malformed(dataFile)]
  /\ UNCHANGED <<variant, sys, dataFile, clipboard, inserted, lin, since>>
  /\ last' = Note("Restart", <<>>, Entries' # Entries)

NextPersist ==
  \/ \E t \in PersistTexts : InsertMain(t)
  \/ ClearMain
  \/ Restart
  \/ \E file \in FoundFiles : Tamper(file)

SpecPersist == InitPersist /\ [][NextPersist]_vars

\* C12 (as stated): a history that saveClips has written is, after
\* loadClips into a new store, the same sequence.
C12_RoundTrip ==
  [][last'.op = "Restart" /\ dataFile = Marshal(Entries) => Entries' = Entries]_vars

\* C15 (as stated): a data file that is absent, unreadable or no array of
\* strings leaves the new store with an empty history.
C15_MalformedLoadsEmpty ==
  [][last'.op = "Restart" /\ (dataFile.json \in {"absent", "unreadable"} \/ Malformed(dataFile))
       => Entries' = <<>>]_vars

----------------------------------------------------------------------------
(* Clear, clicks and click handlers among the goroutines: the              *)
(* specifications SpecHeld, SpecClick and SpecCount are SpecConc with one  *)
(* part of the history variable hist switched on.                          *)

InitMode(mode) ==
  /\ InitStore
  /\ last = NoOp
  /\ lin = NoLin
  /\ since = NoSince
  /\ sys = Running
  /\ hist = [NoHist EXCEPT !.mode = mode]

InitHeld == InitMode("held")

SpecHeld == InitHeld /\ [][NextConc]_vars

\* C16 (as stated): "Clear History" leaves lastContent as it is, and after
\* a Clear the history stays empty, whatever the ticks of monitorClipboard,
\* for as long as the clipboard holds the same text.
C16_StaysEmptyAfterClear ==
  /\ [][clr.pc = "wait" /\ clr'.pc = "184a" => cm'.lastContent = cm.lastContent]_vars
  /\ [](hist.cleared => Entries = <<>>)

\* C16 (amended): "Clear History" leaves lastContent as it is, and after a
\* Clear that found the text of the clipboard already observed and no
\* operation in flight, the history stays empty, whatever the ticks of
\* monitorClipboard, for as long as the clipboard holds that text.
C16_ClearKeepsLastContent ==
  /\ [][clr.pc = "wait" /\ clr'.pc = "184a" => cm'.lastContent = cm.lastContent]_vars
  /\ [](hist.held => Entries = <<>>)

\* a tick after such a Clear has read the text still in the clipboard
C16_Witness ==
  /\ hist.held
  /\ clipboard # <<>>
  /\ mon.pc = "57" /\ mon.content = clipboard
  /\ dataFile = Marshal(<<>>)

InitClick == InitMode("click")

SpecClick == InitClick /\ [][NextConc]_vars

\* C17 (as stated): after a click on an entry that is not the first, and
\* for as long as the clipboard holds the clicked text, the entries are in
\* the order they had before the click whenever no Insert is in flight.
C17_ClickKeepsOrder == hist.clicked /\ mon.pc = "idle" => Entries = hist.before

\* click handlers without Clear (specification SpecCount)
NextCount ==
  \/ \E t \in LetterTexts : UserCopy(t)
  \/ MonTickMain
  \/ MonStepMain
  \/ MenuGetMain
  \/ MenuShowMain
  \/ \E c \in items : ClickWriteMain(c)
  \/ ClickSetMain
  \/ WatchMulti
  \/ RecvMulti
  \/ MenuGetMulti
  \/ MenuShowMulti
  \/ \E c \in items : ClickWriteMulti(c)

InitCount == InitMode("count")

SpecCount == InitCount /\ [][NextCount]_vars

\* C19 (as stated): the click handlers waiting for their click are one for
\* each entry the menu shows, and never more than capacity (5).
C19_OneHandlerPerShownEntry ==
  /\ hist.waiting <= maxClips
  /\ menu.pc = "idle" => hist.waiting = Cardinality(items)

\* C20 (as stated): the text a click handler passes to setClip is in the
\* history at that moment.
C20_ClickedTextIsInHistory == [][last'.op = "Click" => last'.arg \in Elems(Entries)]_vars

----------------------------------------------------------------------------
(* Start, faults and shutdown (specification SpecLife): the process from   *)
(* the call of main to its end, with the clipboard-watch and menu-refresh  *)
(* goroutines, and nobody clicking an entry or "Clear History".            *)

Starting == [phase |-> "start", init |-> "none", mon |-> FALSE, menu |-> FALSE,
             cancelled |-> FALSE, quit |-> FALSE]

InitLife ==
  /\ InitStore
  /\ last = NoOp
  /\ lin = NoLin
  /\ since = NoSince
  /\ hist = NoHist
  /\ sys = Starting

\* src/main.go lines 93-106 and 121-138: clipboard.Init fails and log.Fatal
\* ends the process, or monitorClipboard is started and onReady builds the
\* menu and starts the refresh
StartMain(ok) ==
  /\ variant = "main"
  /\ sys.phase = "start"
  /\ sys' = IF ok THEN Running ELSE [sys EXCEPT !.phase = "exited", !.init = "failed"]
  /\ UNCHANGED <<variant, cm, heap, dataFile, clipboard, changed, items, tasks, ghosts, hist>>

\* src/multiclip/src/main.go lines 73-114: onReady starts monitorClipboard
\* only if clipboard.Init succeeded, then builds the menu and starts
\* menuUpdateRoutine
StartMulti(ok) ==
  /\ variant = "multiclip"
  /\ sys.phase = "start"
  /\ sys' = [Running EXCEPT !.init = IF ok THEN "ok" ELSE "failed", !.mon = ok]
  /\ UNCHANGED <<variant, cm, heap, dataFile, clipboard, changed, items, tasks, ghosts, hist>>

\* src/main.go lines 187-192 and 105: "Quit" calls systray.Quit, systray.Run
\* returns and main with it; a SIGINT or SIGTERM ends the process at once
\* (no signal.Notify).  The goroutines are neither told nor waited for.
StopMain(how) ==
  /\ variant = "main" /\ ~crashed
  /\ sys.phase = "running"
  /\ how \in {"quit", "signal"}
  /\ sys' = [sys EXCEPT !.phase = "exited", !.quit = TRUE]
  /\ UNCHANGED <<variant, cm, heap, dataFile, clipboard, changed, items, tasks, ghosts, hist>>

\* src/multiclip/src/main.go lines 78-83 and 194-198: the signal handler or
\* the click on "Quit MultiClip" calls cancel and systray.Quit
StopMulti(how) ==
  /\ variant = "multiclip"
  /\ sys.phase = "running"
  /\ how \in {"quit", "signal"}
  /\ sys' = [sys EXCEPT !.phase = "stopping", !.cancelled = TRUE, !.quit = TRUE]
  /\ UNCHANGED <<variant, cm, heap, dataFile, clipboard, changed, items, tasks, ghosts, hist>>

\* src/multiclip/src/main.go lines 136-138: monitorClipboard takes ctx.Done
\* in its select and returns
MonDoneMulti ==
  /\ variant = "multiclip"
  /\ Up /\ sys.mon /\ sys.cancelled
  /\ mon.pc \in {"idle", "ch"}
  /\ mon' = IdleLocals
  /\ sys' = [sys EXCEPT !.mon = FALSE]
  /\ UNCHANGED <<variant, cm, heap, dataFile, clipboard, changed, items, menu, clr, clk,
                 crashed, ghosts, hist>>

\* src/multiclip/src/main.go lines 151-153: menuUpdateRoutine takes ctx.Done
\* and returns
MenuDoneMulti ==
  /\ variant = "multiclip"
  /\ Up /\ sys.menu /\ sys.cancelled
  /\ menu.pc = "idle"
  /\ sys' = [sys EXCEPT !.menu = FALSE]
  /\ UNCHANGED <<variant, cm, heap, dataFile, clipboard, changed, items, tasks, ghosts, hist>>

\* src/multiclip/src/main.go lines 262-266 and 86: onExit has slept its
\* 100 ms, systray.Run returns and main with it
ExitMulti ==
  /\ variant = "multiclip"
  /\ sys.phase = "stopping"
  /\ sys' = [sys EXCEPT !.phase = "exited"]
  /\ UNCHANGED <<variant, cm, heap, dataFile, clipboard, changed, items, tasks, ghosts, hist>>

\* src/main.go lines 108-119: a panic in an iteration of monitorClipboard;
\* nothing recovers it
MonFaultMain ==
  /\ variant = "main" /\ ~crashed
  /\ Up /\ sys.mon
  /\ mon.pc # "idle"
  /\ crashed' = TRUE
  /\ UNCHANGED <<variant, sys, cm, heap, dataFile, clipboard, changed, items, mon, menu, clr,
                 clk, ghosts, hist>>

\* src/main.go lines 130-137: a panic in updateMenu; nothing recovers it
MenuFaultMain ==
  /\ variant = "main" /\ ~crashed
  /\ Up /\ sys.menu
  /\ menu.pc = "show"
  /\ crashed' = TRUE
  /\ UNCHANGED <<variant, sys, cm, heap, dataFile, clipboard, changed, items, mon, menu, clr,
                 clk, ghosts, hist>>

\* src/multiclip/src/main.go lines 118-122: a panic in an iteration of
\* monitorClipboard is recovered by the deferred function of
\* monitorClipboard, which then returns
MonFaultMulti ==
  /\ variant = "multiclip"
  /\ Up /\ sys.mon
  /\ mon.pc = "ch"
  /\ mon' = IdleLocals
  /\ sys' = [sys EXCEPT !.mon = FALSE]
  /\ UNCHANGED <<variant, cm, heap, dataFile, clipboard, changed, items, menu, clr, clk,
                 crashed, ghosts, hist>>

\* src/multiclip/src/main.go lines 212-216: a panic in updateMenuItems,
\* after n items have been added, is recovered by its deferred function;
\* menuUpdateRoutine goes on
MenuFaultMulti(n) ==
  /\ variant = "multiclip"
  /\ Up /\ sys.menu
  /\ menu.pc = "show"
  /\ n \in 0..menu.clips.len
  /\ items' = Elems(SubSeq(View(heap, menu.clips), 1, n))
  /\ LET c == Canon(heap, <<cm.history, EmptySlice, EmptySlice>>)
     IN  /\ heap' = c.heap
         /\ cm' = [history |-> c.roots[1]]
  /\ menu' = [pc |-> "idle", clips |-> EmptySlice, returned |-> <<>>]
  /\ UNCHANGED <<variant, sys, dataFile, clipboard, changed, mon, clr, clk, crashed, ghosts, hist>>

NextLife ==
  \/ \E ok \in BOOLEAN : StartMain(ok)
  \/ \E ok \in BOOLEAN : StartMulti(ok)
  \/ \E t \in LetterTexts : UserCopy(t)
  \/ MonTickMain
  \/ MonStepMain
  \/ MenuGetMain
  \/ MenuShowMain
  \/ WatchMulti
  \/ RecvMulti
  \/ MenuGetMulti
  \/ MenuShowMulti
  \/ \E how \in {"quit", "signal"} : StopMain(how)
  \/ \E how \in {"quit", "signal"} : StopMulti(how)
  \/ MonDoneMulti
  \/ MenuDoneMulti
  \/ ExitMulti
  \/ MonFaultMain
  \/ MenuFaultMain
  \/ MonFaultMulti
  \/ \E n \in 0..maxSize : MenuFaultMulti(n)

SpecLife == InitLife /\ [][NextLife]_vars

\* C13 (as stated): when the process ends after a quit action or a
\* termination signal, the clipboard-watch goroutine and the menu-refresh
\* goroutine have returned.
C13_TasksExitBeforeProcess == sys.phase = "exited" /\ sys.quit => ~sys.mon /\ ~sys.menu

\* C14 (as stated): after a failed clipboard.Init the process runs, with
\* its menu, until somebody quits; monitorClipboard is not started and
\* nothing is inserted.
C14_InitFailureIsNotFatal ==
  sys.init = "failed" /\ ~sys.quit => sys.phase = "running" /\ ~sys.mon /\ Entries = <<>>

\* C18 (as stated): whatever fault an iteration of a periodic goroutine
\* meets, the process does not crash and, until somebody quits, the
\* goroutine goes on running.
C18_FaultLeavesTasksRunning ==
  sys.phase = "running" => ~crashed /\ sys.menu /\ (sys.init = "ok" => sys.mon)

\* C21 (as stated): in a store that loadClips filled from an array of
\* strings, at once and after the Inserts that follow, the history has at
\* most capacity (5) entries, no two of them equal, none of them blank.
C21_HydratedInvariants ==
  hist.hydrated =>
    /\ Len(Entries) <= maxClips
    /\ NoDup(Entries)
    /\ \A k \in 1..Len(Entries) : TrimSpace(Entries[k]) # <<>>

-----------------------------------------------------------------------------
(* The length limit of src/multiclip/src/main.go: texts at the limit, one
   byte over it, and padded with white space on both sides of it. *)

Exact200 == Rep(MaxTextLen, "x")

\* 202 bytes as observed, 200 after TrimSpace
Padded200 == Str(" ") \o Exact200 \o Str("\n")

\* 203 bytes as observed, 201 after TrimSpace
Padded201 == Str(" ") \o Long201 \o Str("\n")

\* 67 characters of 3 bytes each: 201 bytes
Wide201 == Rep((MaxTextLen \div 3) + 1, "U+FFFD")

LimitTexts == LetterTexts \cup {Exact200, Long201, Padded200, Padded201, Wide201}

InitLimit == Init /\ variant = "multiclip"

NextLimit ==
  \/ \E t \in LimitTexts : InsertMulti(t)
  \/ UpdateMenuMulti

SpecLimit == InitLimit /\ [][NextLimit]_vars

\* C22: AddItem leaves the history as it was when the trimmed text is longer
\* than 200 bytes, and stores a text of exactly 200 bytes after trimming at
\* the front (or leaves it where it is when the history holds it already),
\* whatever the length of the text as observed.
C22_LimitAfterTrim ==
  [][(last'.op = "Insert" /\ variant = "multiclip") =>
       LET text == TrimSpace(last'.arg)
       IN  /\ ByteLen(text) > MaxTextLen => Entries' = Entries
           /\ ByteLen(text) = MaxTextLen =>
                /\ text \in Elems(Entries')
                /\ text \notin Elems(Entries) =>
                     Entries' = FirstN(<<text>> \o Entries, maxSize)]_vars

\* a text of 202 bytes that trims to 200 has just been stored at the front
C22_Witness ==
  /\ variant = "multiclip"
  /\ last.op = "Insert"
  /\ last.arg = Padded200
  /\ last.run = 1
  /\ last.eff
  /\ Entries # <<>>
  /\ Head(Entries) = Exact200

====
